---- MODULE Spec2Model ----
(***************************************************************************)
(* Model of tools/typeform-cli.py: one run of main() against a remote      *)
(* Typeform account (Spec), and the response sanitizer applied to          *)
(* arbitrary response sets (SanSpec).                                      *)
(*                                                                         *)
(* Python dicts are functions over a set of string keys; dict.get(k) is    *)
(* Get, d[k] = v is SetKey.  Lists are sequences.                          *)
(***************************************************************************)
EXTENDS Naturals, Sequences, FiniteSets, TLC

VARIABLES
    pc,         \* position of the run: "start", "count", "scan", "detail",
                \* "fetch", "sanitize", "done"; "san" in SanSpec
    flag,       \* command line: "forms", "responses" or "none"
    api_key,    \* os.getenv("TYPEFORM_API_KEY"): None, "" or a key
    listing,    \* the remote form listing: a sequence of pages of forms
    caller,     \* who called _get_form_id: "pull_forms" or "pull_responses"
    pages,      \* _get_form_id: page_count of the first listing call
    page,       \* _get_form_id: number of pages scanned so far (i)
    found,      \* (title, id) returned by _get_form_id, <<>> before that
    orig,       \* the response dict as fetched, before any sanitizing
    responses,  \* the response dict the run works on (mutated in place)
    once,       \* the response dict after the first sanitizer pass
    passes,     \* number of sanitizer passes applied so far
    dirs,       \* directories that exist
    files,      \* files written: path -> content
    calls,      \* number of remote calls made, by capability
    log,        \* messages printed
    outcome     \* "running", "ok", or the exception that ended the run

vars == <<pc, flag, api_key, listing, caller, pages, page, found, orig,
          responses, once, passes, dirs, files, calls, log, outcome>>

----------------------------------------------------------------------------
(* Bounds *)

MaxPages == 2       \* pages in the remote form listing
MaxForms == 2       \* forms on one page of the listing
MaxResponses == 2   \* responses in a response set given to the sanitizer
MaxAnswers == 2     \* answers in one response
MaxPasses == 2      \* sanitizer passes in SanSpec

----------------------------------------------------------------------------
(* Python values *)

None == "<None>"

Get(d, k) == IF k \in DOMAIN d THEN d[k] ELSE None

SetKey(d, k, v) == [x \in (DOMAIN d) \cup {k} |-> IF x = k THEN v ELSE d[x]]

SeqsUpTo(S, n) == UNION {[1..m -> S] : m \in 0..n}

----------------------------------------------------------------------------
(* Remote data *)

TITLE == "Dogs & Children Survey"

OtherTitle == "Cats Survey"

Form(t, i) == [x \in {"title", "id"} |-> IF x = "title" THEN t ELSE i]

Forms == {Form(TITLE, "id1"), Form(TITLE, "id2"), Form(OtherTitle, "id3")}

Answer(t, k, v) == [x \in {"type", k} |-> IF x = "type" THEN t ELSE v]

ResponseIds == <<"r1", "r2", "r3", "r4">>

Answers ==
    { Answer("email", "email", "a@x.com"),
      Answer("email", "email", "r1"),
      Answer("email", "value", "a@x.com"),
      Answer("text", "value", "hi") }

Response(rid, as) ==
    [x \in {"response_id", "answers"} |-> IF x = "response_id" THEN rid ELSE as]

ResponseDict(items, total, pcount) ==
    [x \in {"items", "total_items", "page_count"} |->
        IF x = "items" THEN items
        ELSE IF x = "total_items" THEN total ELSE pcount]

AnswerLists == SeqsUpTo(Answers, MaxAnswers)

\* An email that is already the response_id can only occur in the response
\* with that id, the first; elsewhere "r1" is one more address.
PlainAnswerLists ==
    SeqsUpTo(Answers \ {Answer("email", "email", ResponseIds[1])}, MaxAnswers)

Items(m, f) == [i \in 1..m |-> Response(ResponseIds[i], f[i])]

----------------------------------------------------------------------------
(* _sanitize_responses *)

\* Variant: the identifier is written under "value" instead of "email".
SanitizeAnswerValueKey(answer, response) ==
    IF Get(answer, "type") = "email"
    THEN SetKey(answer, "value", Get(response, "response_id"))
    ELSE answer

\* Variant: the type test is dropped, every answer is rewritten.
SanitizeAnswerAnyType(answer, response) ==
    SetKey(answer, "email", Get(response, "response_id"))

\* Variant: the token is derived from the identifier and the current value.
SanitizeAnswerSalted(answer, response) ==
    IF Get(answer, "type") = "email"
    THEN SetKey(answer, "email",
                <<Get(response, "response_id"), Get(answer, "email")>>)
    ELSE answer

SanitizeAnswer(answer, response) ==
    IF Get(answer, "type") = "email"
    THEN SetKey(answer, "email", Get(response, "response_id"))
    ELSE answer

\* Variant: email answers are dropped instead of rewritten.
SanitizeResponseDropEmail(response) ==
    LET IsKept(a) == Get(a, "type") # "email"
    IN  SetKey(response, "answers", SelectSeq(Get(response, "answers"), IsKept))

SanitizeResponse(response) ==
    LET as == Get(response, "answers")
    IN  SetKey(response, "answers",
               [j \in 1..Len(as) |-> SanitizeAnswer(as[j], response)])

_sanitize_responses(rs) ==
    LET items == Get(rs, "items")
    IN  SetKey(rs, "items", [i \in 1..Len(items) |-> SanitizeResponse(items[i])])

----------------------------------------------------------------------------
(* SanSpec: the sanitizer on arbitrary response sets *)

SanInit ==
    /\ pc = "san"
    /\ flag = "none"
    /\ api_key = None
    /\ listing = <<>>
    /\ caller = None
    /\ pages = 0
    /\ page = 0
    /\ found = <<>>
    /\ \E m \in 0..MaxResponses :
          \E first \in AnswerLists, rest \in [2..m -> PlainAnswerLists] :
             orig = ResponseDict(
                        Items(m, [i \in 1..m |-> IF i = 1 THEN first ELSE rest[i]]),
                        m, IF m = 0 THEN 0 ELSE 1)
    /\ responses = orig
    /\ once = None
    /\ passes = 0
    /\ dirs = {}
    /\ files = <<>>
    /\ calls = [list |-> 0, detail |-> 0, responses |-> 0]
    /\ log = {}
    /\ outcome = "running"

Sanitize ==
    /\ pc = "san"
    /\ passes < MaxPasses
    /\ responses' = _sanitize_responses(responses)
    /\ passes' = passes + 1
    /\ once' = IF passes = 0 THEN responses' ELSE once
    /\ UNCHANGED <<pc, flag, api_key, listing, caller, pages, page, found,
                   orig, dirs, files, calls, log, outcome>>

SanNext == Sanitize

SanSpec == SanInit /\ [][SanNext]_vars

----------------------------------------------------------------------------
(* to_machine_friendly_title *)

Chars(title) ==
    IF title = TITLE
    THEN <<"D","o","g","s"," ","&"," ","C","h","i","l","d","r","e","n"," ",
           "S","u","r","v","e","y">>
    ELSE <<"C","a","t","s"," ","S","u","r","v","e","y">>

Translate(c) ==
    IF c = " " THEN <<"-">> ELSE IF c = "&" THEN <<"a", "n", "d">> ELSE <<c>>

Lower(c) ==
    IF c = "D" THEN "d" ELSE IF c = "C" THEN "c" ELSE IF c = "S" THEN "s" ELSE c

RECURSIVE TranslateAll(_)
TranslateAll(cs) ==
    IF cs = <<>> THEN <<>> ELSE Translate(Head(cs)) \o TranslateAll(Tail(cs))

to_machine_friendly_title(title) ==
    LET t == TranslateAll(Chars(title)) IN [i \in 1..Len(t) |-> Lower(t[i])]

JsonPath(dir, title) == <<dir, to_machine_friendly_title(title), ".json">>

----------------------------------------------------------------------------
(* Spec: one run of main *)

PAGE_SIZE == 1000

\* Variant: only an unset variable is rejected, an empty one is accepted.
FalsyNoneOnly(v) == v = None

Falsy(v) == v = None \/ v = ""

ConfigError == "ValueError: TYPEFORM_API_KEY environment variable is not set."

NotFoundError == "RuntimeError: Form with title not found."

PaginationError == "RuntimeError: 1000 or more responses; requires pagination support."

UsageHint == "No action specified. Use --help for more information."

NoCalls == [list |-> 0, detail |-> 0, responses |-> 0]

PageLists == SeqsUpTo(Forms, MaxForms)

\* What tf.responses.list may return for the form.
FetchedItems == {<<>>, Items(1, <<<<Answer("email", "email", "a@x.com"),
                                     Answer("text", "value", "hi")>>>>)}

TotalItems == {0, 1, PAGE_SIZE}

PageCounts == {0, 1, 2}

Init ==
    /\ pc = "start"
    /\ flag \in {"forms", "responses", "none"}
    /\ api_key \in {None, "", "key"}
    /\ \E n \in 0..MaxPages : \E l \in [1..n -> PageLists] : listing = l
    /\ caller = None
    /\ pages = 0
    /\ page = 0
    /\ found = <<>>
    /\ orig = None
    /\ responses = None
    /\ once = None
    /\ passes = 0
    /\ dirs = {}
    /\ files = <<>>
    /\ calls = NoCalls
    /\ log = {}
    /\ outcome = "running"

\* main, lines 119-121: the credential is missing or empty.
MainConfigError ==
    /\ pc = "start"
    /\ Falsy(api_key)
    /\ outcome' = ConfigError
    /\ pc' = "done"
    /\ UNCHANGED <<flag, api_key, listing, caller, pages, page, found, orig,
                   responses, once, passes, dirs, files, calls, log>>

\* Variant: pulling forms is the default when no flag is given.
MainPullFormsDefault ==
    /\ pc = "start"
    /\ api_key \notin {None, ""}
    /\ flag # "responses"
    /\ log' = log \cup {"Pulling forms from Typeform..."}
    /\ dirs' = dirs \cup {"forms"}
    /\ caller' = "pull_forms"
    /\ pc' = "count"
    /\ UNCHANGED <<flag, api_key, listing, pages, page, found, orig,
                   responses, once, passes, files, calls, outcome>>

\* main, line 124-125, and pull_forms up to its call of _get_form_id.
MainPullForms ==
    /\ pc = "start"
    /\ ~Falsy(api_key)
    /\ flag = "forms"
    /\ log' = log \cup {"Pulling forms from Typeform..."}
    /\ dirs' = dirs \cup {"forms"}
    /\ caller' = "pull_forms"
    /\ pc' = "count"
    /\ UNCHANGED <<flag, api_key, listing, pages, page, found, orig,
                   responses, once, passes, files, calls, outcome>>

\* main, line 126-127, and pull_responses up to its call of _get_form_id.
MainPullResponses ==
    /\ pc = "start"
    /\ ~Falsy(api_key)
    /\ flag = "responses"
    /\ log' = log \cup {"Pulling responses from Typeform..."}
    /\ caller' = "pull_responses"
    /\ pc' = "count"
    /\ UNCHANGED <<flag, api_key, listing, pages, page, found, orig,
                   responses, once, passes, dirs, files, calls, outcome>>

\* main, line 128-129.
MainNoAction ==
    /\ pc = "start"
    /\ ~Falsy(api_key)
    /\ flag = "none"
    /\ log' = log \cup {UsageHint}
    /\ outcome' = "ok"
    /\ pc' = "done"
    /\ UNCHANGED <<flag, api_key, listing, caller, pages, page, found, orig,
                   responses, once, passes, dirs, files, calls>>

\* _get_form_id, line 26: the first listing call reports the page count.
GetFormIdCount ==
    /\ pc = "count"
    /\ calls' = [calls EXCEPT !.list = @ + 1]
    /\ pages' = Len(listing)
    /\ page' = 0
    /\ pc' = "scan"
    /\ UNCHANGED <<flag, api_key, listing, caller, found, orig, responses,
                   once, passes, dirs, files, log, outcome>>

Matches(form) == Get(form, "title") = TITLE

\* What the scan of a page yields when no form of it matches.
NoMatch == <<>>

\* Variant: the scan of a page keeps the last match instead of returning.
LastMatch(items) ==
    IF \E k \in 1..Len(items) : Matches(items[k])
    THEN LET k == CHOOSE k \in 1..Len(items) :
                    /\ Matches(items[k])
                    /\ \A h \in (k + 1)..Len(items) : ~Matches(items[h])
         IN  <<Get(items[k], "title"), Get(items[k], "id")>>
    ELSE NoMatch

\* Lines 29-31: the form of a page the scan returns, or None.
FirstMatch(items) ==
    IF \E k \in 1..Len(items) : Matches(items[k])
    THEN LET k == CHOOSE k \in 1..Len(items) :
                    /\ Matches(items[k])
                    /\ \A h \in 1..(k - 1) : ~Matches(items[h])
         IN  <<Get(items[k], "title"), Get(items[k], "id")>>
    ELSE NoMatch

\* _get_form_id, lines 27-31: fetch page i + 1 and scan it.
GetFormIdPage ==
    /\ pc = "scan"
    /\ page < pages
    /\ calls' = [calls EXCEPT !.list = @ + 1]
    /\ LET m == FirstMatch(listing[page + 1])
       IN  IF m # NoMatch
           THEN /\ found' = m
                /\ page' = page
                /\ pc' = IF caller = "pull_forms" THEN "detail" ELSE "fetch"
                /\ log' = log \cup {IF caller = "pull_forms"
                                    THEN "Pulling form: title"
                                    ELSE "Pulling responses for form: title"}
           ELSE /\ page' = page + 1
                /\ UNCHANGED <<found, pc, log>>
    /\ UNCHANGED <<flag, api_key, listing, caller, pages, orig, responses,
                   once, passes, dirs, files, outcome>>

\* Variant: an unmatched title ends the lookup silently.
GetFormIdReturnEmpty ==
    /\ pc = "scan"
    /\ page = pages
    /\ outcome' = "ok"
    /\ pc' = "done"
    /\ UNCHANGED <<flag, api_key, listing, caller, pages, page, found, orig,
                   responses, once, passes, dirs, files, calls, log>>

\* _get_form_id, line 32: every page was scanned without a match.
GetFormIdRaise ==
    /\ pc = "scan"
    /\ page = pages
    /\ outcome' = NotFoundError
    /\ pc' = "done"
    /\ UNCHANGED <<flag, api_key, listing, caller, pages, page, found, orig,
                   responses, once, passes, dirs, files, calls, log>>

\* pull_forms, lines 52-57.
PullFormsWrite ==
    /\ pc = "detail"
    /\ calls' = [calls EXCEPT !.detail = @ + 1]
    /\ files' = SetKey(files, JsonPath("forms", found[1]), <<"form", found[2]>>)
    /\ outcome' = "ok"
    /\ pc' = "done"
    /\ UNCHANGED <<flag, api_key, listing, caller, pages, page, found, orig,
                   responses, once, passes, dirs, log>>

\* Variant: exactly PAGE_SIZE responses are let through.
RequiresPaginationOffByOne(cnt, page_count) == cnt > PAGE_SIZE \/ page_count > 1

\* Line 68: the volume the single-page design cannot take.
RequiresPagination(cnt, page_count) == cnt >= PAGE_SIZE \/ page_count > 1

\* pull_responses, lines 64-71.
PullResponsesFetch ==
    /\ pc = "fetch"
    /\ calls' = [calls EXCEPT !.responses = @ + 1]
    /\ \E items \in FetchedItems, total \in TotalItems, pcount \in PageCounts :
          LET r == ResponseDict(items, total, pcount)
              cnt == Get(r, "total_items")
          IN  /\ responses' = r
              /\ orig' = r
              /\ IF cnt = 0
                 THEN /\ log' = log \cup {"No responses to pull."}
                      /\ pc' = "sanitize"
                      /\ UNCHANGED outcome
                 ELSE IF RequiresPagination(cnt, Get(r, "page_count"))
                 THEN /\ outcome' = PaginationError
                      /\ pc' = "done"
                      /\ UNCHANGED log
                 ELSE /\ log' = log \cup {"Pulling cnt responses."}
                      /\ pc' = "sanitize"
                      /\ UNCHANGED outcome
    /\ UNCHANGED <<flag, api_key, listing, caller, pages, page, found, once,
                   passes, dirs, files>>

\* Line 80: len(responses.items()), the number of keys of the dict.
DictLen(d) == Cardinality(DOMAIN d)

\* pull_responses, lines 74-85.
PullResponsesWrite ==
    /\ pc = "sanitize"
    /\ responses' = _sanitize_responses(responses)
    /\ once' = responses'
    /\ passes' = passes + 1
    /\ dirs' = dirs \cup {"data"}
    /\ files' = IF DictLen(responses') > 0
                THEN SetKey(files, JsonPath("data", found[1]), responses')
                ELSE files
    /\ outcome' = "ok"
    /\ pc' = "done"
    /\ UNCHANGED <<flag, api_key, listing, caller, pages, page, found, orig,
                   calls, log>>

Next ==
    \/ MainConfigError
    \/ MainPullForms
    \/ MainPullResponses
    \/ MainNoAction
    \/ GetFormIdCount
    \/ GetFormIdPage
    \/ GetFormIdRaise
    \/ PullFormsWrite
    \/ PullResponsesFetch
    \/ PullResponsesWrite

Spec == Init /\ [][Next]_vars

----------------------------------------------------------------------------
(* Properties of the sanitizer, checked under SanSpec *)

ItemsBefore == Get(orig, "items")

ItemsAfter == Get(responses, "items")

AnswersOf(items, i) == Get(items[i], "answers")

IdOf(items, i) == Get(items[i], "response_id")

\* The output has an answer at every position of the input.
SameShape ==
    /\ Len(ItemsAfter) = Len(ItemsBefore)
    /\ \A i \in 1..Len(ItemsBefore) :
          Len(AnswersOf(ItemsAfter, i)) = Len(AnswersOf(ItemsBefore, i))

\* P(before, after, rid) holds of every answer of the input, the answer at
\* its position in the output and the response_id of its response.
EveryAnswer(P(_, _, _)) ==
    \A i \in 1..Len(ItemsBefore) :
        \A j \in 1..Len(AnswersOf(ItemsBefore, i)) :
            P(AnswersOf(ItemsBefore, i)[j], AnswersOf(ItemsAfter, i)[j],
              IdOf(ItemsBefore, i))

SomeAnswer(P(_, _, _)) ==
    \E i \in 1..Len(ItemsBefore) :
        \E j \in 1..Len(AnswersOf(ItemsBefore, i)) :
            P(AnswersOf(ItemsBefore, i)[j], AnswersOf(ItemsAfter, i)[j],
              IdOf(ItemsBefore, i))

\* C1 as stated: after sanitizing, every email-type answer that carries a
\* `value` field has the response_id of its response as that value.
C1_ValueFieldIsResponseId ==
    passes >= 1 =>
        /\ SameShape
        /\ EveryAnswer(LAMBDA before, after, rid :
              (Get(before, "type") = "email" /\ "value" \in DOMAIN before)
                  => Get(after, "value") = rid)

\* C1 amended: after sanitizing, the `email` field of every email-type answer
\* equals the response_id of its response, so what that field held before is
\* gone unless it already was that response_id; a `value` field of the answer
\* is left as it was.
C1_EmailFieldIsResponseId ==
    passes >= 1 =>
        /\ SameShape
        /\ EveryAnswer(LAMBDA before, after, rid :
              Get(before, "type") = "email" =>
                  /\ Get(after, "email") = rid
                  /\ Get(before, "email") # rid
                        => Get(after, "email") # Get(before, "email")
                  /\ Get(after, "value") = Get(before, "value"))

C1_Witness ==
    /\ pc = "san"
    /\ passes >= 1
    /\ SomeAnswer(LAMBDA before, after, rid :
          /\ before = Answer("email", "email", "a@x.com")
          /\ after = Answer("email", "email", rid))
    /\ SomeAnswer(LAMBDA before, after, rid :
          /\ before = Answer("email", "email", rid)
          /\ after = before)

\* C2: the sanitizer keeps the number and order of responses, the number and
\* order of answers in each response, every response_id and every answer type
\* (and every other field except the `email` field of an answer).
C2_StructurePreserved ==
    passes >= 1 =>
        /\ DOMAIN responses = DOMAIN orig
        /\ \A k \in DOMAIN orig \ {"items"} : responses[k] = orig[k]
        /\ SameShape
        /\ \A i \in 1..Len(ItemsBefore) :
              /\ DOMAIN ItemsAfter[i] = DOMAIN ItemsBefore[i]
              /\ IdOf(ItemsAfter, i) = IdOf(ItemsBefore, i)
        /\ EveryAnswer(LAMBDA before, after, rid :
              /\ Get(after, "type") = Get(before, "type")
              /\ DOMAIN before \subseteq DOMAIN after
              /\ DOMAIN after \subseteq DOMAIN before \cup {"email"}
              /\ \A k \in DOMAIN before \ {"email"} : after[k] = before[k])

C2_Witness ==
    /\ pc = "san"
    /\ passes >= 1
    /\ Len(ItemsAfter) = 2
    /\ Len(AnswersOf(ItemsAfter, 2)) = 2
    /\ Get(AnswersOf(ItemsBefore, 2)[1], "type") = "text"
    /\ Get(AnswersOf(ItemsBefore, 2)[2], "type") = "email"
    /\ responses # orig

\* C3: every answer whose type is not "email" is the same, field by field,
\* before and after the sanitizer runs.
C3_NonEmailUntouched ==
    passes >= 1 =>
        /\ SameShape
        /\ EveryAnswer(LAMBDA before, after, rid :
              Get(before, "type") # "email" => after = before)

C3_Witness ==
    /\ pc = "san"
    /\ passes >= 1
    /\ \E i \in 1..Len(ItemsBefore) :
          \E j, k \in 1..Len(AnswersOf(ItemsBefore, i)) :
             /\ Get(AnswersOf(ItemsBefore, i)[j], "type") = "text"
             /\ AnswersOf(ItemsAfter, i)[j] = AnswersOf(ItemsBefore, i)[j]
             /\ Get(AnswersOf(ItemsBefore, i)[k], "type") = "email"
             /\ AnswersOf(ItemsAfter, i)[k] # AnswersOf(ItemsBefore, i)[k]

\* C4: sanitizing twice gives exactly the response set that sanitizing once
\* gives.
C4_Idempotent == passes >= 2 => responses = once

C4_Witness ==
    /\ pc = "san"
    /\ passes >= 2
    /\ once # orig
    /\ responses = once

----------------------------------------------------------------------------
(* Properties of a run of main, checked under Spec *)

DataFile == JsonPath("data", TITLE)

Fetched == calls.responses > 0

NothingToPull ==
    /\ Fetched
    /\ Get(orig, "total_items") = 0
    /\ Get(orig, "page_count") = 0
    /\ Get(orig, "items") = <<>>

\* C5: when the remote reports zero responses for the form, pull_responses
\* writes no file for it under the data directory and only logs that there
\* is nothing to pull.
C5_NoFileWhenNothingToPull ==
    NothingToPull =>
        /\ DataFile \notin DOMAIN files
        /\ "No responses to pull." \in log

TitlePages ==
    {p \in 1..Len(listing) : \E k \in 1..Len(listing[p]) : Matches(listing[p][k])}

IdsOn(p) ==
    {Get(listing[p][k], "id") : k \in {h \in 1..Len(listing[p]) : Matches(listing[p][h])}}

HighestTitlePage == CHOOSE p \in TitlePages : \A q \in TitlePages : q <= p

OnSeveralPages == \E p, q \in TitlePages : p < q /\ IdsOn(p) # IdsOn(q)

LocatorDone == caller # None /\ pc \notin {"count", "scan"}

C9_ConfigErrorBeforeRemote ==
    api_key \in {None, ""} =>
        /\ pc \in {"start", "done"}
        /\ pc = "done" => outcome = ConfigError
        /\ calls = NoCalls
        /\ DOMAIN files = {}
        /\ caller = None

C9_Witness ==
    /\ api_key = ""
    /\ flag = "responses"
    /\ TitlePages # {}
    /\ pc = "done"
    /\ outcome = ConfigError

\* C10 as stated: run with neither flag, main prints the usage hint and
\* exits normally, with no remote call and no file written.
C10_NoFlagExitsNormally ==
    (flag = "none" /\ pc = "done")
        => /\ outcome = "ok"
           /\ UsageHint \in log
           /\ calls = NoCalls
           /\ DOMAIN files = {}

\* C10 amended: run with neither flag and with the credential set, main
\* prints the usage hint and exits normally without calling pull_forms or
\* pull_responses, so with no remote call and no file written.
C10_NoFlagWithKeyExitsNormally ==
    (flag = "none" /\ api_key \notin {None, ""}) =>
        /\ pc \in {"start", "done"}
        /\ pc = "done" => (outcome = "ok" /\ UsageHint \in log)
        /\ caller = None
        /\ calls = NoCalls
        /\ DOMAIN files = {}

C10_Witness ==
    /\ flag = "none"
    /\ api_key = "key"
    /\ pc = "done"
    /\ outcome = "ok"
    /\ UsageHint \in log

====
